---- MODULE Spec2Model ----
(***************************************************************************)
(* GET /me of fastapi-clean-example: the application lifespan, the ASGI    *)
(* middleware stack built by create_web_app, the route's error map and     *)
(* GetCurrentUserQueryService.execute, with concurrent requests that each  *)
(* suspend once, at the await on the Current User Service.                 *)
(***************************************************************************)
EXTENDS Integers, Sequences, FiniteSets, TLC

\* ------------------------------------------------------------------ bounds

MaxUsers == 2

MaxRequests == 2

UserIds == 1..MaxUsers

Reqs == 1..MaxRequests

\* ------------------------------------------------------- program constants

HTTP_200_OK == 200

HTTP_401_UNAUTHORIZED == 401

HTTP_403_FORBIDDEN == 403

HTTP_503_SERVICE_UNAVAILABLE == 503

\* ------------------------------------------------------------ domain data

UsernamePool == <<"alice", "bob", "carol", "dave">>

RolePool == <<"user", "admin", "super_admin">>

\* The domain entity the Current User Service returns: value objects for the
\* identity and the username, the role, the active flag, and a field that is
\* no part of the projection.
User(i) ==
    [id_ |-> [value |-> i],
     username |-> [value |-> UsernamePool[((i - 1) % Len(UsernamePool)) + 1]],
     role |-> RolePool[((i - 1) % Len(RolePool)) + 1],
     is_active |-> (i % 2 = 1),
     password_hash |-> "hash"]

\* What a request carries as credentials: no cookie, a cookie no session
\* answers to, or the cookie of a live session of user i.
Credentials ==
    {[kind |-> "absent", user |-> 0], [kind |-> "invalid", user |-> 0]}
        \cup {[kind |-> "session", user |-> i] : i \in UserIds}

\* The user slot of an outcome that carries no user.
NoUser ==
    [id_ |-> [value |-> 0], username |-> [value |-> ""], role |-> "",
     is_active |-> FALSE, password_hash |-> ""]

Ok(u) == [kind |-> "ok", user |-> u, error |-> "", message |-> ""]

Raise(type, message) ==
    [kind |-> "raise", user |-> NoUser, error |-> type, message |-> message]

NoOutcome == [kind |-> "none", user |-> NoUser, error |-> "", message |-> ""]

\* CurrentUserService.get_current_user, by what it signals: no session ->
\* AuthenticationError whatever the storage does; a session and a failing
\* gateway -> DataMapperError; otherwise the session's user, a refusal, or an
\* error of no declared type.
CurrentUserOutcomes(creds, up) ==
    IF creds.kind # "session"
    THEN {Raise("AuthenticationError", "Not authenticated.")}
    ELSE (IF up
          THEN {Ok(User(creds.user)),
                Raise("AuthorizationError", "Not authorized.")}
          ELSE {Raise("DataMapperError", "Database query failed.")})
         \cup {Raise("UnexpectedError", "unexpected")}

\* ------------------------------------------------------------ app factory

\* Starlette's add_middleware: the new middleware goes to the head of
\* user_middleware, and the head is the outermost layer.
add_middleware(user_middleware, m) == <<m>> \o user_middleware

create_web_app_AuthAddedLast ==
    add_middleware(add_middleware(<<>>, "CORSMiddleware"), "ASGIAuthMiddleware")

\* create_web_app: the middleware stack of the app it returns.
create_web_app ==
    add_middleware(add_middleware(<<>>, "ASGIAuthMiddleware"), "CORSMiddleware")

\* ------------------------------------------------------------------ state

VARIABLES
    lpc,          \* where the lifespan context manager is
    mapCount,     \* calls of map_tables so far
    mapDone,      \* map_tables has returned
    closeCount,   \* calls of container.close() so far
    lifespanExc,  \* the exception pending in / raised by the lifespan
    accepting,    \* the server accepts requests
    everAccepted, \* the server has accepted requests at some time
    stopRequested,\* the server was told to shut down
    req           \* the requests

vars ==
    <<lpc, mapCount, mapDone, closeCount, lifespanExc, accepting, everAccepted,
      stopRequested, req>>

lifespanVars ==
    <<lpc, mapCount, mapDone, closeCount, lifespanExc>>

serverVars == <<accepting, everAccepted, stopRequested>>

NoResponse == [status |-> 0, by |-> "none", body |-> [error |-> ""]]

IdleRequest ==
    [pc |-> "idle", method |-> "GET", creds |-> [kind |-> "absent", user |-> 0],
     layer |-> 0, handled |-> <<>>, trace |-> <<>>, log |-> <<>>,
     awaited |-> NoOutcome, raised |-> NoOutcome, response |-> NoResponse,
     gatewayAtCall |-> TRUE, resumedAmid |-> FALSE]

Init ==
    /\ lpc = "start"
    /\ mapCount = 0
    /\ mapDone = FALSE
    /\ closeCount = 0
    /\ lifespanExc = ""
    /\ accepting = FALSE
    /\ everAccepted = FALSE
    /\ stopRequested = FALSE
    /\ req = [r \in Reqs |-> IdleRequest]

\* --------------------------------------------------------------- lifespan

Finished(r) == req[r].pc \in {"idle", "done"}

LifespanEnter_SkipMapTables ==
    /\ lpc = "start"
    /\ lpc' = "yield"
    /\ UNCHANGED <<mapCount, mapDone, closeCount, lifespanExc, serverVars,
                   req>>

\* container = app.state.dishka_container; the try block is entered.
LifespanEnter ==
    /\ lpc = "start"
    /\ lpc' = "try"
    /\ UNCHANGED <<mapCount, mapDone, closeCount, lifespanExc, serverVars,
                   req>>

MapTables_NoFinally ==
    /\ lpc = "try"
    /\ mapCount' = mapCount + 1
    /\ \E ok \in BOOLEAN :
        IF ok
        THEN /\ mapDone' = TRUE
             /\ lpc' = "yield"
             /\ lifespanExc' = lifespanExc
        ELSE /\ mapDone' = mapDone
             /\ lpc' = "raised"
             /\ lifespanExc' = "map_tables failed"
    /\ UNCHANGED <<closeCount, serverVars, req>>

\* map_tables(): it returns, or it raises and control goes to the finally.
MapTables ==
    /\ lpc = "try"
    /\ mapCount' = mapCount + 1
    /\ \E ok \in BOOLEAN :
        IF ok
        THEN /\ mapDone' = TRUE
             /\ lpc' = "yield"
             /\ lifespanExc' = lifespanExc
        ELSE /\ mapDone' = mapDone
             /\ lpc' = "finally"
             /\ lifespanExc' = "map_tables failed"
    /\ UNCHANGED <<closeCount, serverVars, req>>

\* yield: startup is complete, the lifespan is suspended until shutdown.
LifespanYield ==
    /\ lpc = "yield"
    /\ lpc' = "yielded"
    /\ UNCHANGED <<mapCount, mapDone, closeCount, lifespanExc, serverVars,
                   req>>

\* The server starts accepting once the lifespan's startup is complete.
ServerStartAccepting ==
    /\ lpc = "yielded"
    /\ ~everAccepted
    /\ ~stopRequested
    /\ accepting' = TRUE
    /\ everAccepted' = TRUE
    /\ UNCHANGED <<lifespanVars, stopRequested, req>>

\* The server is told to shut down: it stops accepting.
ServerStopAccepting ==
    /\ lpc = "yielded"
    /\ ~stopRequested
    /\ stopRequested' = TRUE
    /\ accepting' = FALSE
    /\ UNCHANGED <<lifespanVars, everAccepted, req>>

\* Shutdown: with the requests in flight finished, the lifespan is resumed
\* after its yield and leaves the try block.
LifespanShutdown ==
    /\ lpc = "yielded"
    /\ stopRequested
    /\ \A r \in Reqs : Finished(r)
    /\ lpc' = "finally"
    /\ UNCHANGED <<mapCount, mapDone, closeCount, lifespanExc, serverVars,
                   req>>

\* finally: await container.close(); a pending exception is raised again.
LifespanFinally ==
    /\ lpc = "finally"
    /\ closeCount' = closeCount + 1
    /\ lpc' = IF lifespanExc = "" THEN "exited" ELSE "raised"
    /\ UNCHANGED <<mapCount, mapDone, lifespanExc, serverVars, req>>

LifespanStep ==
    \/ LifespanEnter
    \/ MapTables
    \/ LifespanYield
    \/ LifespanShutdown
    \/ LifespanFinally

\* ------------------------------------------------------------- the route

LogEntry(logger, level, msg, id, username) ==
    [logger |-> logger, level |-> level, msg |-> msg, id |-> id,
     username |-> username]

QueryLogger == "app.application.queries.get_current_user"

CallbackLogger == "app.presentation.http.errors.callbacks"

\* log_error / log_info: one entry at that level, carrying the error.
Callback(name, exc) ==
    LogEntry(CallbackLogger, IF name = "log_error" THEN "error" ELSE "info",
             exc.message, 0, "")

ServiceUnavailableMessage ==
    "Service temporarily unavailable. Please try again later."

\* A translator turns the error into the response body: the route's
\* ServiceUnavailableTranslator gives a fixed message, the router's default
\* one the error's own text.
Translate(translator, exc) ==
    IF translator = "ServiceUnavailableTranslator"
    THEN [error |-> ServiceUnavailableMessage]
    ELSE [error |-> exc.message]

PlainStatus(status) ==
    [status |-> status, translator |-> "", on_error |-> ""]

rule(status, translator, on_error) ==
    [status |-> status, translator |-> translator, on_error |-> on_error]

error_map_AuthenticationAs403 ==
    [t \in {"AuthenticationError", "DataMapperError", "AuthorizationError"} |->
        CASE t = "AuthenticationError" -> PlainStatus(HTTP_403_FORBIDDEN)
          [] t = "DataMapperError" ->
                rule(HTTP_503_SERVICE_UNAVAILABLE,
                     "ServiceUnavailableTranslator", "log_error")
          [] t = "AuthorizationError" -> PlainStatus(HTTP_403_FORBIDDEN)]

error_map_DataMapperPlain503 ==
    [t \in {"AuthenticationError", "DataMapperError", "AuthorizationError"} |->
        CASE t = "AuthenticationError" -> PlainStatus(HTTP_401_UNAUTHORIZED)
          [] t = "DataMapperError" -> PlainStatus(HTTP_503_SERVICE_UNAVAILABLE)
          [] t = "AuthorizationError" -> PlainStatus(HTTP_403_FORBIDDEN)]

error_map_AuthorizationAs401 ==
    [t \in {"AuthenticationError", "DataMapperError", "AuthorizationError"} |->
        CASE t = "AuthenticationError" -> PlainStatus(HTTP_401_UNAUTHORIZED)
          [] t = "DataMapperError" ->
                rule(HTTP_503_SERVICE_UNAVAILABLE,
                     "ServiceUnavailableTranslator", "log_error")
          [] t = "AuthorizationError" -> PlainStatus(HTTP_401_UNAUTHORIZED)]

\* error_map of the /me route.
error_map ==
    [t \in {"AuthenticationError", "DataMapperError", "AuthorizationError"} |->
        CASE t = "AuthenticationError" -> PlainStatus(HTTP_401_UNAUTHORIZED)
          [] t = "DataMapperError" ->
                rule(HTTP_503_SERVICE_UNAVAILABLE,
                     "ServiceUnavailableTranslator", "log_error")
          [] t = "AuthorizationError" -> PlainStatus(HTTP_403_FORBIDDEN)]

\* default_on_error of the /me route.
default_on_error == "log_info"

\* What the framework answers when the route lets an exception through.
FrameworkDefaultResponse ==
    [status |-> 500, by |-> "framework",
     body |-> [error |-> "Internal Server Error"]]

\* The route's answer to an exception of get_me, as the pairs (response, log
\* entries of the callbacks). A mapped error takes its rule's status, its
\* rule's translator and on_error or else the defaults. An error with no rule
\* goes on to the framework; whether the router runs default_on_error for it
\* first is the router library's choice, and both are kept.
HandleError(exc) ==
    IF exc.error \in DOMAIN error_map
    THEN LET r == error_map[exc.error]
             on_error == IF r.on_error = "" THEN default_on_error ELSE r.on_error
         IN  {[response |-> [status |-> r.status, by |-> "error_map",
                             body |-> Translate(r.translator, exc)],
               log |-> <<Callback(on_error, exc)>>]}
    ELSE {[response |-> FrameworkDefaultResponse, log |-> <<>>],
          [response |-> FrameworkDefaultResponse,
           log |-> <<Callback(default_on_error, exc)>>]}

\* ------------------------------------------------------- the query service

execute_result_RoleAsUsername(current_user) ==
    [id_ |-> current_user.id_.value,
     username |-> current_user.role,
     role |-> current_user.role,
     is_active |-> current_user.is_active]

\* UserQueryModel(...) of execute: the projection of the resolved user.
execute_result(current_user) ==
    [id_ |-> current_user.id_.value,
     username |-> current_user.username.value,
     role |-> current_user.role,
     is_active |-> current_user.is_active]

\* Another request is suspended at its await (kept in resumedAmid for a
\* request answered 200, to tell interleaved runs from sequential ones).
OthersSuspended(r) ==
    \E q \in Reqs \ {r} : req[q].pc \in {"awaiting", "ready"}

AwaitResult_Shared(r) ==
    LET ready == {q \in Reqs : req[q].pc = "ready"}
    IN  req[CHOOSE q \in ready : \A p \in ready : q <= p].awaited

\* current_user = await ...: the coroutine of request r resumes with the
\* outcome of its own call.
AwaitResult(r) == req[r].awaited

\* ------------------------------------------------------------- requests

\* Request q is running: between its arrival and its first await nothing
\* suspends it.
Running(q) == req[q].pc \in {"asgi", "route"}

\* The event loop runs one coroutine at a time, each until it suspends: r can
\* take a step when no other request is running.
LoopFreeFor(r) == \A q \in Reqs \ {r} : ~Running(q)

\* A request arrives while the server accepts: GET /me with some credentials,
\* or the CORS preflight (OPTIONS) a browser sends ahead of it. Requests are
\* numbered in the order they arrive.
Arrive(r) ==
    /\ accepting
    /\ req[r].pc = "idle"
    /\ LoopFreeFor(r)
    /\ \A q \in Reqs : q < r => req[q].pc # "idle"
    /\ \E c \in Credentials, m \in {"GET", "OPTIONS"} :
        /\ m = "OPTIONS" => c.kind = "absent"
        /\ req' = [req EXCEPT ![r].pc = "asgi", ![r].method = m,
                              ![r].creds = c, ![r].layer = 1]
    /\ UNCHANGED <<lifespanVars, serverVars>>

\* The next layer of the middleware stack takes the request. CORSMiddleware
\* answers a preflight itself; otherwise a layer hands the request inwards,
\* the innermost one to the router.
MiddlewareHandle(r) ==
    /\ req[r].pc = "asgi"
    /\ LoopFreeFor(r)
    /\ LET stack == create_web_app
           m == stack[req[r].layer]
       IN  req' = [req EXCEPT
                ![r].handled = Append(@, m),
                ![r].layer = IF req[r].layer < Len(stack) THEN @ + 1 ELSE @,
                ![r].pc = IF m = "CORSMiddleware" /\ req[r].method = "OPTIONS"
                          THEN "done"
                          ELSE IF req[r].layer < Len(stack) THEN "asgi"
                          ELSE "route",
                ![r].response =
                    IF m = "CORSMiddleware" /\ req[r].method = "OPTIONS"
                    THEN [status |-> HTTP_200_OK, by |-> "CORSMiddleware",
                          body |-> [error |-> ""]]
                    ELSE @]
    /\ UNCHANGED <<lifespanVars, serverVars>>

\* get_me is called and calls execute, which logs "started" and calls the
\* Current User Service: the coroutine is suspended at the await.
GetMe(r) ==
    /\ req[r].pc = "route"
    /\ LoopFreeFor(r)
    /\ req' = [req EXCEPT
            ![r].handled = Append(@, "get_me"),
            ![r].log = Append(@, LogEntry(QueryLogger, "info",
                                          "Get current user: started.", 0, "")),
            ![r].trace = @ \o <<"started", "call">>,
            ![r].pc = "awaiting"]
    /\ UNCHANGED <<lifespanVars, serverVars>>

\* The Current User Service finishes the call of request r; the user gateway
\* behind it is healthy (up) or failing at that moment. (gatewayAtCall keeps
\* which, for a request turned away as unauthenticated.)
CurrentUserServiceResolve(r) ==
    /\ req[r].pc = "awaiting"
    /\ LoopFreeFor(r)
    /\ \E up \in BOOLEAN :
        \E o \in CurrentUserOutcomes(req[r].creds, up) :
            req' = [req EXCEPT ![r].awaited = o, ![r].pc = "ready",
                                  ![r].gatewayAtCall =
                                      IF o.error = "AuthenticationError"
                                      THEN up ELSE @]
    /\ UNCHANGED <<lifespanVars, serverVars>>

ExecuteResume_Retry(r) ==
    /\ req[r].pc = "ready"
    /\ LoopFreeFor(r)
    /\ LET o == AwaitResult(r)
       IN  IF o.kind = "ok"
           THEN req' = [req EXCEPT
                    ![r].log = Append(@, LogEntry(QueryLogger, "info",
                                                  "Get current user: done.",
                                                  o.user.id_.value,
                                                  o.user.username.value)),
                    ![r].trace = @ \o <<"done", "return">>,
                    ![r].response = [status |-> HTTP_200_OK, by |-> "get_me",
                                     body |-> execute_result(o.user)],
                    ![r].resumedAmid = OthersSuspended(r),
                    ![r].pc = "done"]
           ELSE req' = [req EXCEPT
                    ![r].trace = @ \o <<"call">>,
                    ![r].awaited = NoOutcome,
                    ![r].pc = "awaiting"]
    /\ UNCHANGED <<lifespanVars, serverVars>>

\* execute resumes after its await. With a user it builds the projection, logs
\* "done" and returns, and the route answers 200 with the projection. With an
\* exception it stops there and the exception leaves execute and get_me for
\* the route's error handling.
ExecuteResume(r) ==
    /\ req[r].pc = "ready"
    /\ LoopFreeFor(r)
    /\ LET o == AwaitResult(r)
       IN  IF o.kind = "ok"
           THEN req' = [req EXCEPT
                    ![r].log = Append(@, LogEntry(QueryLogger, "info",
                                                  "Get current user: done.",
                                                  o.user.id_.value,
                                                  o.user.username.value)),
                    ![r].trace = @ \o <<"done", "return">>,
                    ![r].response = [status |-> HTTP_200_OK, by |-> "get_me",
                                     body |-> execute_result(o.user)],
                    ![r].resumedAmid = OthersSuspended(r),
                    ![r].pc = "done"]
           ELSE \E h \in HandleError(o) :
                req' = [req EXCEPT
                    ![r].trace = @ \o <<"raise">>,
                    ![r].raised = o,
                    ![r].log = @ \o h.log,
                    ![r].response = h.response,
                    ![r].pc = "done"]
    /\ UNCHANGED <<lifespanVars, serverVars>>

RequestStep(r) ==
    \/ MiddlewareHandle(r)
    \/ GetMe(r)
    \/ CurrentUserServiceResolve(r)
    \/ ExecuteResume(r)

\* ------------------------------------------------------- specifications

Next ==
    \/ LifespanEnter
    \/ MapTables
    \/ LifespanYield
    \/ ServerStartAccepting
    \/ ServerStopAccepting
    \/ LifespanShutdown
    \/ LifespanFinally
    \/ \E r \in Reqs : Arrive(r)
    \/ \E r \in Reqs : MiddlewareHandle(r)
    \/ \E r \in Reqs : GetMe(r)
    \/ \E r \in Reqs : CurrentUserServiceResolve(r)
    \/ \E r \in Reqs : ExecuteResume(r)

Spec == Init /\ [][Next]_vars

\* The event loop keeps running the lifespan and every request that can take
\* a step, and a call of the Current User Service comes back. Nothing is
\* assumed of the environment: requests need not arrive, and the server need
\* not be told to shut down.
LiveSpec ==
    /\ Init
    /\ [][Next]_vars
    /\ WF_vars(LifespanStep)
    /\ \A r \in Reqs : WF_vars(RequestStep(r))

\* ----------------------------------------------------------------- claims

Done(r) == req[r].pc = "done"

\* The request went through the route: it is a GET /me that has an answer.
Answered(r) == Done(r) /\ req[r].method = "GET"

\* The entries the route's error callbacks logged for request r.
CallbackLog(r) ==
    SelectSeq(req[r].log, LAMBDA e : e.logger = CallbackLogger)

\* The entries execute logged for request r.
QueryLog(r) ==
    SelectSeq(req[r].log, LAMBDA e : e.logger = QueryLogger)

Count(seq, x) == Cardinality({i \in 1..Len(seq) : seq[i] = x})

Before(seq, x, y) ==
    \A i \in 1..Len(seq) : seq[i] = y => \E j \in 1..(i - 1) : seq[j] = x

\* The projection of principal p, field by field.
ProjectionOf(p) ==
    [id_ |-> p.id_.value, username |-> p.username.value, role |-> p.role,
     is_active |-> p.is_active]

\* C1: a GET /me whose Current User Service call succeeded with principal P is
\* answered 200 with exactly the projection of P (id, username, role,
\* is_active and no other field), whatever requests came before.
C1_SuccessIsProjection ==
    \A r \in Reqs :
        (Answered(r) /\ req[r].awaited.kind = "ok") =>
            LET p == req[r].awaited.user
                b == req[r].response.body
            IN  /\ req[r].response.status = HTTP_200_OK
                /\ DOMAIN b = {"id_", "username", "role", "is_active"}
                /\ b.id_ = p.id_.value
                /\ b.username = p.username.value
                /\ b.role = p.role
                /\ b.is_active = p.is_active

C1_Witness ==
    \E r \in Reqs, q \in Reqs :
        /\ r # q
        /\ Answered(q) /\ req[q].awaited.kind = "raise"
        /\ Answered(r) /\ req[r].awaited = Ok(User(MaxUsers))
        /\ req[r].response.status = HTTP_200_OK

C3_DataMapper503 ==
    \A r \in Reqs :
        (Answered(r) /\ req[r].raised.error = "DataMapperError") =>
            /\ req[r].response.status = HTTP_503_SERVICE_UNAVAILABLE
            /\ req[r].response.body = [error |-> ServiceUnavailableMessage]
            /\ req[r].response.body.error # req[r].raised.message
            /\ Len(CallbackLog(r)) = 1
            /\ CallbackLog(r)[1].level = "error"
            /\ CallbackLog(r)[1].msg = req[r].raised.message

C3_Witness ==
    \E r \in Reqs :
        /\ Answered(r) /\ req[r].raised.error = "DataMapperError"
        /\ req[r].creds.kind = "session"
        /\ req[r].response.status = HTTP_503_SERVICE_UNAVAILABLE

\* C4: an AuthorizationError from resolving the current user is answered 403
\* (never 401 or 503) and logged at info level.
C4_Authorization403 ==
    \A r \in Reqs :
        (Answered(r) /\ req[r].raised.error = "AuthorizationError") =>
            /\ req[r].response.status = HTTP_403_FORBIDDEN
            /\ Len(CallbackLog(r)) = 1
            /\ CallbackLog(r)[1].level = "info"

C4_Witness ==
    \E r \in Reqs :
        /\ Answered(r) /\ req[r].raised.error = "AuthorizationError"
        /\ req[r].response.status = HTTP_403_FORBIDDEN

\* C5: however concurrent requests interleave at their awaits, a request that
\* is answered 200 gets the projection of the principal of its own session,
\* and so never the data of another request's principal.
C5_OwnPrincipalOnly ==
    \A r \in Reqs :
        (Answered(r) /\ req[r].response.status = HTTP_200_OK) =>
            /\ req[r].creds.kind = "session"
            /\ req[r].response.body = ProjectionOf(User(req[r].creds.user))
            /\ \A q \in Reqs :
                (req[q].creds.kind = "session"
                    /\ req[q].creds.user # req[r].creds.user) =>
                    /\ req[r].response.body.id_ # req[q].creds.user
                    /\ req[r].response.body.username
                        # User(req[q].creds.user).username.value

C5_Witness ==
    \E r \in Reqs, q \in Reqs :
        /\ r # q
        /\ Answered(r) /\ req[r].response.status = HTTP_200_OK
        /\ Answered(q) /\ req[q].response.status = HTTP_200_OK
        /\ req[r].creds.user # req[q].creds.user
        /\ req[r].resumedAmid
        /\ req[r].awaited.kind = "ok" /\ req[q].awaited.kind = "ok"

\* C6: in the app of create_web_app every request is handled by the CORS
\* middleware first, by the authentication middleware only after it, and by
\* the route handler only after the authentication middleware.
C6_CorsOutermost ==
    \A r \in Reqs :
        LET h == req[r].handled
        IN  /\ Len(h) >= 1 => h[1] = "CORSMiddleware"
            /\ Before(h, "CORSMiddleware", "ASGIAuthMiddleware")
            /\ Before(h, "ASGIAuthMiddleware", "get_me")

C6_Witness ==
    \E r \in Reqs, q \in Reqs :
        /\ req[r].handled = <<"CORSMiddleware", "ASGIAuthMiddleware", "get_me">>
        /\ req[q].handled = <<"CORSMiddleware">> /\ Done(q)

InFlight(r) == req[r].pc # "idle"

\* C7: map_tables runs once and has returned before the server accepts any
\* request, and the container is closed only after the server has stopped
\* accepting, never while or before it accepts.
C7_MapOnceCloseLast ==
    /\ mapCount <= 1
    /\ lpc \in {"yield", "yielded", "finally", "exited", "raised"} => mapCount = 1
    /\ (accepting \/ everAccepted \/ \E r \in Reqs : InFlight(r)) =>
            mapCount = 1 /\ mapDone
    /\ closeCount > 0 =>
            /\ ~accepting
            /\ everAccepted => stopRequested
            /\ \A r \in Reqs : Finished(r)
    /\ (accepting \/ \E r \in Reqs : ~Finished(r)) => closeCount = 0

C7_Witness ==
    /\ lpc = "exited"
    /\ mapCount = 1
    /\ closeCount = 1
    /\ everAccepted
    /\ \E r \in Reqs : Answered(r)

\* C8: execute calls the Current User Service once and never again; "started"
\* is logged before the call; when the call fails the same exception leaves
\* execute, no projection is built and "done" is not logged; "done" is logged
\* only after the call succeeded.
C8_OneCallNoRetry ==
    \A r \in Reqs :
        LET t == req[r].trace
        IN  /\ Count(t, "call") <= 1
            /\ req[r].pc \in {"awaiting", "ready"} \/ Answered(r) =>
                    Count(t, "call") = 1
            /\ Before(t, "started", "call")
            /\ Count(t, "started") = Len(QueryLog(r)) - Count(t, "done")
            /\ Len(t) >= 1 => QueryLog(r)[1].msg = "Get current user: started."
            /\ Count(t, "raise") > 0 =>
                    /\ req[r].awaited.kind = "raise"
                    /\ req[r].raised = req[r].awaited
                    /\ Count(t, "done") = 0
                    /\ Len(QueryLog(r)) = 1
                    /\ req[r].response.by # "get_me"
                    /\ DOMAIN req[r].response.body = {"error"}
            /\ Count(t, "done") > 0 =>
                    /\ req[r].awaited.kind = "ok"
                    /\ Before(t, "call", "done")
                    /\ Len(QueryLog(r)) = 2
                    /\ QueryLog(r)[2].msg = "Get current user: done."
                    /\ QueryLog(r)[2].id = req[r].awaited.user.id_.value
                    /\ QueryLog(r)[2].username
                        = req[r].awaited.user.username.value
            /\ (Answered(r) /\ req[r].awaited.kind = "raise") =>
                    Count(t, "raise") = 1

C8_Witness ==
    \E r \in Reqs, q \in Reqs :
        /\ Answered(r) /\ req[r].trace = <<"started", "call", "raise">>
        /\ req[r].raised.error = "DataMapperError"
        /\ Answered(q) /\ req[q].trace = <<"started", "call", "done", "return">>

\* C10: the lifespan closes the container on every way out, once: after a
\* shutdown, and when map_tables fails at startup, where the server never
\* accepted a request and the failure is raised again after the close.
C10_ClosedOnEveryExit ==
    /\ [](closeCount <= 1)
    /\ [](lpc \in {"exited", "raised"} => closeCount = 1)
    /\ [](lpc = "raised" => lifespanExc = "map_tables failed" /\ ~everAccepted)
    /\ (stopRequested ~> (closeCount = 1 /\ lpc = "exited"))
    /\ (lifespanExc # "" ~> (closeCount = 1 /\ lpc = "raised"))

C10_Witness ==
    /\ lpc = "raised"
    /\ lifespanExc = "map_tables failed"
    /\ closeCount = 1
    /\ mapCount = 1
    /\ ~everAccepted

====
